---- MODULE Spec2Model ----
(***************************************************************************)
(* Derived-artifact lifecycle of the context graph (backend/app/           *)
(* gds_client.py): the decision-graph and entity-graph projections, the    *)
(* persisted FastRP embeddings and the Louvain community pipeline.         *)
(*                                                                         *)
(* Every Cypher request a client method sends is one atomic step of the    *)
(* calling process; a caller's pc is the list of requests it still has to  *)
(* send.  The graph store (Neo4j + GDS catalog) is the shared state.       *)
(*                                                                         *)
(* The hybrid retriever (backend/app/vector_client.py) and the causal-chain *)
(* tracer (backend/app/context_graph_client.py) are single read-only       *)
(* queries: each is one step that answers from the store's contents.       *)
(***************************************************************************)
EXTENDS Integers, Sequences, FiniteSets, TLC

\* ---------------------------------------------------------------- bounds
MaxDecisions == 2
MaxCorpus == 3
MaxLimit == 2
MaxEdges == 3
MaxDepth == 2

Decisions == 1..MaxDecisions
\* Louvain names a community by the node id of one of its members
CommIds == Decisions
Callers == {"a", "b"}
DecisionGraph == "decision-graph"
EntityGraph == "entity-graph"

VARIABLES
    decisions,          \* Decision nodes in the store
    fastrp_embedding,   \* d.fastrp_embedding persisted on Decision nodes, 0 = NULL;
                        \* a value n stands for a vector computed over n Decisions
    community_id,       \* d.community_id persisted on Decision nodes, 0 = NULL
    communities,        \* ids of the (:Community) nodes
    belongs_to,         \* (d)-[:BELONGS_TO]->(c) links
    catalog,            \* GDS graph catalog: the in-memory projections
    pc,                 \* per caller: the requests still to be sent, <<>> = idle
    cur,                \* per caller: the operation in progress, its force argument,
                        \* and whether the store was left alone by others since it began
    embeddings_exist,   \* per caller: local of _ensure_decision_graph_exists
    log,                \* per caller: requests sent by the current operation
    ret,                \* per caller: outcome of the operation once finished
    prev,               \* per caller: the call made just before the current one
    start,              \* per caller: facts about the store when the call began
    reasoning_idx,      \* vector index decision_reasoning_idx: the semantic vector
                        \* of every Decision of the corpus, 0 = reasoning_embedding NULL
    fastrp_idx,         \* vector index decision_fastrp_idx: the structural vector
                        \* of every Decision of the corpus, 0 = fastrp_embedding NULL
    causal,             \* the CAUSED / INFLUENCED relationships between Decisions
    request,            \* the retrieval or trace call being answered: its arguments
    response,           \* what that call returned
    entities,           \* the Person, Account and Transaction nodes in the store
    links,              \* the ABOUT / FOLLOWED_PRECEDENT edges out of Decisions
    recording,          \* the record_decision call in progress: the requests still
                        \* to be sent, the new Decision's id, the call's outcome
    reasoning,          \* the Decisions of the corpus whose reasoning is not NULL
    backfill            \* the startup loop over batch_update_decision_embeddings

storeVars == <<decisions, fastrp_embedding, community_id, communities,
               belongs_to, catalog>>
callVars == <<pc, cur, embeddings_exist, log, ret, prev, start>>
writerVars == <<entities, links, recording, reasoning, backfill>>
queryVars == <<reasoning_idx, fastrp_idx, causal, request, response, writerVars>>
vars == <<decisions, fastrp_embedding, community_id, communities,
          belongs_to, catalog,
          pc, cur, embeddings_exist, log, ret, prev, start,
          reasoning_idx, fastrp_idx, causal, request, response,
          entities, links, recording, reasoning, backfill>>

Range(s) == {s[i] : i \in 1..Len(s)}

NoCall == "none"
NoOp == [op |-> "none", force |-> FALSE, clean |-> TRUE]
NoStart == [emb |-> FALSE, graph |-> FALSE, comm |-> FALSE, consistent |-> TRUE]
NoEmbedding == [d \in Decisions |-> 0]

\* the Decisions the retriever and the tracer search; a Decision's id is its rank
\* in recording order, so a greater id is a later decision_timestamp
Corpus == 1..MaxCorpus
Timestamp(d) == d
\* embedding vectors, as the store compares them: a vector is named by the first
\* Decision that carries it, and MaxCorpus + 1 names a vector no Decision carries
Vectors == 1..(MaxCorpus + 1)
NoVectors == [d \in Corpus |-> 0]
NoRequest == [fn |-> "none"]
NoResponse == [status |-> "none"]

NoRecording == [pc |-> <<>>, plan |-> <<>>, id |-> 0, status |-> "none",
                returned |-> 0, before |-> {}]
NoBackfill == [pc |-> "none", batch |-> <<>>, rest |-> <<>>, count |-> 0,
               total_generated |-> 0, lacking |-> 0]

\* no Decision is being recorded, the startup loop is not running
NoWriter ==
    /\ entities = {}
    /\ links = {}
    /\ recording = NoRecording
    /\ reasoning = {}
    /\ backfill = NoBackfill

\* no retrieval or trace is in progress and the query side of the store is empty
NoQuery ==
    /\ reasoning_idx = NoVectors
    /\ fastrp_idx = NoVectors
    /\ causal = {}
    /\ request = NoRequest
    /\ response = NoResponse
    /\ NoWriter

\* ------------------------------------------------------- the graph store
\* gds.graph.exists(name)
GraphExists(name) == \E p \in catalog : p.name = name

Projection(name) == CHOOSE p \in catalog : p.name = name

\* gds.graph.drop(name, false): failIfMissing = false
GraphDrop(name) == {p \in catalog : p.name # name}

\* gds.graph.project(name, ...): a snapshot of the store taken now
NewProjection(name, include_embeddings) ==
    [name |-> name,
     nodes |-> IF name = DecisionGraph THEN decisions ELSE {},
     hasEmb |-> include_embeddings,
     femb |-> IF include_embeddings
              THEN [d \in Decisions |-> IF d \in decisions THEN fastrp_embedding[d] ELSE 0]
              ELSE NoEmbedding,
     hasComm |-> FALSE,
     comm |-> [d \in Decisions |-> 0]]

\* plausible slip: the check asks that no Decision lacks an embedding
CheckEmbeddingsExist_All == \A d \in decisions : fastrp_embedding[d] # 0

\* MATCH (d:Decision) WHERE d.fastrp_embedding IS NOT NULL RETURN count(d) > 0
CheckEmbeddingsExist == \E d \in decisions : fastrp_embedding[d] # 0

\* MATCH (c:Community) RETURN count(c) > 0
CommunitiesExist == communities # {}

\* facts about the store, as an observer sees them (not requests of the code)
EmbeddingsPersisted == \E d \in decisions : fastrp_embedding[d] # 0

ProjectionPresent == \E p \in catalog : p.name = DecisionGraph

AggregatesPresent == communities # {}

\* every labelled Decision has its Community node and its membership link
Consistent ==
    \A d \in decisions : community_id[d] # 0 =>
        /\ community_id[d] \in communities
        /\ <<d, community_id[d]>> \in belongs_to

\* ------------------------------------------------- plans (request lists)
\* plausible slip: the projection is created without dropping the old one
CreateDecisionGraphProjection_NoDrop(include_embeddings) ==
    <<IF include_embeddings THEN "projectEmb" ELSE "projectPlain">>

\* create_decision_graph_projection(include_embeddings)
CreateDecisionGraphProjection(include_embeddings) ==
    <<"drop", IF include_embeddings THEN "projectEmb" ELSE "projectPlain">>

\* create_entity_graph_projection()
CreateEntityGraphProjection == <<"dropEntity", "projectEntity">>

\* _ensure_decision_graph_exists: the two checks it starts with
EnsureDecisionGraphExists == <<"checkEmb", "checkGraph">>

\* plausible slip: an existing projection is taken as proof that all is ready
EnsurePlan_GraphOnly(emb_exist, graph_exists) ==
    IF graph_exists THEN <<>>
    ELSE IF emb_exist THEN CreateDecisionGraphProjection(TRUE)
    ELSE CreateDecisionGraphProjection(FALSE) \o <<"fastrp", "writeEmb">>
         \o CreateDecisionGraphProjection(TRUE)

\* plausible slip: the early return is missing, the projection is always rebuilt
EnsurePlan_AlwaysRebuild(emb_exist, graph_exists) ==
    IF emb_exist THEN CreateDecisionGraphProjection(TRUE)
    ELSE CreateDecisionGraphProjection(FALSE) \o <<"fastrp", "writeEmb">>
         \o CreateDecisionGraphProjection(TRUE)

\* _ensure_decision_graph_exists: what follows the two checks
EnsurePlan(emb_exist, graph_exists) ==
    IF graph_exists /\ emb_exist THEN <<>>
    ELSE IF emb_exist THEN CreateDecisionGraphProjection(TRUE)
    ELSE CreateDecisionGraphProjection(FALSE) \o <<"fastrp", "writeEmb">>
         \o CreateDecisionGraphProjection(TRUE)

\* plausible slip: the membership links are merged before the Community nodes
CommunityPipeline_LinkFirst ==
    <<"dropGraph">> \o EnsureDecisionGraphExists
    \o <<"louvain", "writeIds", "linkMembers", "mergeCommunities", "aggregate">>

\* write_community_ids: the pipeline after the early-return check
CommunityPipeline ==
    <<"dropGraph">> \o EnsureDecisionGraphExists
    \o <<"louvain", "writeIds", "mergeCommunities", "linkMembers", "aggregate">>

\* plausible slip: the early-return check is skipped
WriteCommunityIds_AlwaysRun(force) ==
    EnsureDecisionGraphExists \o CommunityPipeline

\* write_community_ids(force)
WriteCommunityIds(force) ==
    EnsureDecisionGraphExists
    \o (IF force THEN CommunityPipeline ELSE <<"checkCommunity">>)

\* POST /api/analytics/fastrp
RunFastrpEmbeddings ==
    CreateDecisionGraphProjection(FALSE) \o <<"fastrp", "writeEmb">>

\* _ensure_entity_graph_exists
EnsureEntityGraphExists == <<"checkEntity">>

\* find_similar_decisions_knn: the ensure step, then the algorithm query
FindSimilarDecisionsKnn == EnsureDecisionGraphExists \o <<"knn">>

LifecycleOps == {"ensure", "communities", "fastrp"}
Ops == LifecycleOps \cup {"ensureEntity"}

EntryPlan(o, force) ==
    CASE o = "ensure" -> EnsureDecisionGraphExists
      [] o = "communities" -> WriteCommunityIds(force)
      [] o = "fastrp" -> RunFastrpEmbeddings
      [] o = "knn" -> FindSimilarDecisionsKnn
      [] OTHER -> EnsureEntityGraphExists

ResultOf(o) == IF o = "communities" THEN "computed" ELSE "ok"

\* -------------------------------------------------------- caller steps
At(c, l) == pc[c] # <<>> /\ Head(pc[c]) = l

\* the request l was answered; cont is what remains to be sent
Goto(c, l, cont, r) ==
    /\ pc' = [pc EXCEPT ![c] = cont]
    /\ log' = [log EXCEPT ![c] = Append(@, l)]
    /\ ret' = [ret EXCEPT ![c] = IF cont = <<>> THEN r ELSE "none"]

Next1(c, l) == Goto(c, l, Tail(pc[c]), ResultOf(cur[c].op))

\* the request l raised: the exception leaves the method
Raise(c, l) ==
    /\ pc' = [pc EXCEPT ![c] = <<>>]
    /\ log' = [log EXCEPT ![c] = Append(@, l)]
    /\ ret' = [ret EXCEPT ![c] = "error"]

\* prev is kept through a call that repeats the previous one, unforced
Call(c, ops) ==
    /\ pc[c] = <<>>
    /\ ret[c] = "none"
    /\ \E o \in ops, f \in BOOLEAN :
        /\ (f => o = "communities")
        /\ cur' = [cur EXCEPT ![c] = [op |-> o, force |-> f, clean |-> TRUE]]
        /\ pc' = [pc EXCEPT ![c] = EntryPlan(o, f)]
        /\ prev' = [prev EXCEPT ![c] = IF @ = o /\ ~f THEN @ ELSE NoCall]
    /\ start' = [start EXCEPT ![c] =
                  [emb |-> EmbeddingsPersisted,
                   graph |-> ProjectionPresent,
                   comm |-> AggregatesPresent,
                   consistent |-> Consistent]]
    /\ UNCHANGED <<storeVars, queryVars, embeddings_exist, log, ret>>

\* the method has returned (or raised): its frame is gone; the caller remembers
\* the call it has just made when that call returned normally, was not forced
\* and nothing was recorded in the store while it ran
Return(c) ==
    /\ pc[c] = <<>>
    /\ ret[c] # "none"
    /\ prev' = [prev EXCEPT ![c] =
                  IF ret[c] # "error" /\ ~cur[c].force /\ cur[c].clean
                  THEN cur[c].op ELSE NoCall]
    /\ cur' = [cur EXCEPT ![c] = NoOp]
    /\ embeddings_exist' = [embeddings_exist EXCEPT ![c] = FALSE]
    /\ log' = [log EXCEPT ![c] = <<>>]
    /\ ret' = [ret EXCEPT ![c] = "none"]
    /\ start' = [start EXCEPT ![c] = NoStart]
    /\ UNCHANGED <<storeVars, queryVars, pc>>

\* _check_embeddings_exist
CheckEmb(c) ==
    /\ At(c, "checkEmb")
    /\ embeddings_exist' = [embeddings_exist EXCEPT ![c] = CheckEmbeddingsExist]
    /\ Next1(c, "checkEmb")
    /\ UNCHANGED <<storeVars, queryVars, cur, prev, start>>

\* gds.graph.exists('decision-graph') and the branch that follows it
CheckGraph(c) ==
    /\ At(c, "checkGraph")
    /\ Goto(c, "checkGraph",
            EnsurePlan(embeddings_exist[c], GraphExists(DecisionGraph)) \o Tail(pc[c]),
            ResultOf(cur[c].op))
    /\ UNCHANGED <<storeVars, queryVars, cur, embeddings_exist, prev, start>>

\* gds.graph.drop('decision-graph', false) of create_decision_graph_projection
Drop(c) ==
    /\ At(c, "drop")
    /\ catalog' = GraphDrop(DecisionGraph)
    /\ Next1(c, "drop")
    /\ UNCHANGED <<queryVars, decisions, fastrp_embedding, community_id, communities,
                   belongs_to, cur, embeddings_exist, prev, start>>

\* gds.graph.project(name, ...): fails when the name is taken
GraphProject(c, l, name, include_embeddings) ==
    /\ At(c, l)
    /\ IF GraphExists(name)
       THEN Raise(c, l) /\ UNCHANGED catalog
       ELSE /\ catalog' = catalog \cup {NewProjection(name, include_embeddings)}
            /\ Next1(c, l)
    /\ UNCHANGED <<queryVars, decisions, fastrp_embedding, community_id, communities,
                   belongs_to, cur, embeddings_exist, prev, start>>

ProjectPlain(c) == GraphProject(c, "projectPlain", DecisionGraph, FALSE)

ProjectEmb(c) == GraphProject(c, "projectEmb", DecisionGraph, TRUE)

\* generate_fastrp_embeddings: gds.fastRP.mutate on the projection
Fastrp(c) ==
    /\ At(c, "fastrp")
    /\ IF GraphExists(DecisionGraph) /\ ~Projection(DecisionGraph).hasEmb
       THEN LET p == Projection(DecisionGraph) IN
            /\ catalog' = (catalog \ {p}) \cup
                 {[p EXCEPT !.hasEmb = TRUE,
                            !.femb = [d \in Decisions |->
                                        IF d \in p.nodes THEN Cardinality(p.nodes) ELSE 0]]}
            /\ Next1(c, "fastrp")
       ELSE Raise(c, "fastrp") /\ UNCHANGED catalog
    /\ UNCHANGED <<queryVars, decisions, fastrp_embedding, community_id, communities,
                   belongs_to, cur, embeddings_exist, prev, start>>

\* write_fastrp_embeddings: gds.graph.nodeProperties.write
WriteEmb(c) ==
    /\ At(c, "writeEmb")
    /\ IF GraphExists(DecisionGraph) /\ Projection(DecisionGraph).hasEmb
       THEN LET p == Projection(DecisionGraph) IN
            /\ fastrp_embedding' =
                 [d \in Decisions |->
                    IF d \in p.nodes /\ d \in decisions /\ p.femb[d] # 0
                    THEN p.femb[d] ELSE fastrp_embedding[d]]
            /\ Next1(c, "writeEmb")
       ELSE Raise(c, "writeEmb") /\ UNCHANGED fastrp_embedding
    /\ UNCHANGED <<queryVars, decisions, community_id, communities, belongs_to,
                   catalog, cur, embeddings_exist, prev, start>>

\* write_community_ids: the early return on existing Community nodes
CheckCommunity(c) ==
    /\ At(c, "checkCommunity")
    /\ IF CommunitiesExist
       THEN Goto(c, "checkCommunity", <<>>, "already_computed")
       ELSE Goto(c, "checkCommunity", CommunityPipeline, ResultOf(cur[c].op))
    /\ UNCHANGED <<storeVars, queryVars, cur, embeddings_exist, prev, start>>

\* write_community_ids: gds.graph.drop($graph_name, false)
DropGraph(c) ==
    /\ At(c, "dropGraph")
    /\ catalog' = GraphDrop(DecisionGraph)
    /\ Next1(c, "dropGraph")
    /\ UNCHANGED <<queryVars, decisions, fastrp_embedding, community_id, communities,
                   belongs_to, cur, embeddings_exist, prev, start>>

\* the outcomes of Louvain over a set of nodes: every node gets the id of a
\* representative of its community, and a representative represents itself
Labellings(nodes) == {f \in [nodes -> nodes] : \A d \in nodes : f[f[d]] = f[d]}

\* gds.louvain.mutate: labels every Decision of the projection
Louvain(c) ==
    /\ At(c, "louvain")
    /\ IF GraphExists(DecisionGraph) /\ ~Projection(DecisionGraph).hasComm
       THEN LET p == Projection(DecisionGraph) IN
            /\ \E f \in Labellings(p.nodes) :
                 catalog' = (catalog \ {p}) \cup
                   {[p EXCEPT !.hasComm = TRUE,
                              !.comm = [d \in Decisions |->
                                          IF d \in p.nodes THEN f[d] ELSE 0]]}
            /\ Next1(c, "louvain")
       ELSE Raise(c, "louvain") /\ UNCHANGED catalog
    /\ UNCHANGED <<queryVars, decisions, fastrp_embedding, community_id, communities,
                   belongs_to, cur, embeddings_exist, prev, start>>

\* gds.graph.nodeProperty.stream ... SET decision.community_id
WriteIds(c) ==
    /\ At(c, "writeIds")
    /\ IF GraphExists(DecisionGraph) /\ Projection(DecisionGraph).hasComm
       THEN LET p == Projection(DecisionGraph) IN
            /\ community_id' =
                 [d \in Decisions |->
                    IF d \in p.nodes /\ d \in decisions
                    THEN p.comm[d] ELSE community_id[d]]
            /\ Next1(c, "writeIds")
       ELSE Raise(c, "writeIds") /\ UNCHANGED community_id
    /\ UNCHANGED <<queryVars, decisions, fastrp_embedding, communities, belongs_to,
                   catalog, cur, embeddings_exist, prev, start>>

\* plausible slip: Community nodes are created only when none exists yet
MergedCommunities_OnlyFirst ==
    IF communities # {} THEN communities
    ELSE {community_id[d] : d \in {e \in decisions : community_id[e] # 0}}

\* MERGE (c:Community {id: communityId}) for every distinct d.community_id
MergedCommunities ==
    communities \cup {community_id[d] : d \in {e \in decisions : community_id[e] # 0}}

MergeCommunities(c) ==
    /\ At(c, "mergeCommunities")
    /\ communities' = MergedCommunities
    /\ Next1(c, "mergeCommunities")
    /\ UNCHANGED <<queryVars, decisions, fastrp_embedding, community_id, belongs_to,
                   catalog, cur, embeddings_exist, prev, start>>

\* MATCH (c:Community {id: d.community_id}) MERGE (d)-[:BELONGS_TO]->(c)
LinkedMembers ==
    belongs_to \cup
      {<<d, community_id[d]>> :
         d \in {e \in decisions : community_id[e] # 0 /\ community_id[e] \in communities}}

LinkMembers(c) ==
    /\ At(c, "linkMembers")
    /\ belongs_to' = LinkedMembers
    /\ Next1(c, "linkMembers")
    /\ UNCHANGED <<queryVars, decisions, fastrp_embedding, community_id, communities,
                   catalog, cur, embeddings_exist, prev, start>>

\* SET c.decision_count, c.categories, c.decision_types on the Community nodes:
\* display properties, which no other request reads
Aggregate(c) ==
    /\ At(c, "aggregate")
    /\ Next1(c, "aggregate")
    /\ UNCHANGED <<storeVars, queryVars, cur, embeddings_exist, prev, start>>

\* gds.graph.exists('entity-graph'), then create_entity_graph_projection if absent
CheckEntity(c) ==
    /\ At(c, "checkEntity")
    /\ Goto(c, "checkEntity",
            IF GraphExists(EntityGraph) THEN <<>> ELSE CreateEntityGraphProjection,
            ResultOf(cur[c].op))
    /\ UNCHANGED <<storeVars, queryVars, cur, embeddings_exist, prev, start>>

\* gds.graph.drop('entity-graph', false)
DropEntity(c) ==
    /\ At(c, "dropEntity")
    /\ catalog' = GraphDrop(EntityGraph)
    /\ Next1(c, "dropEntity")
    /\ UNCHANGED <<queryVars, decisions, fastrp_embedding, community_id, communities,
                   belongs_to, cur, embeddings_exist, prev, start>>

ProjectEntity(c) == GraphProject(c, "projectEntity", EntityGraph, FALSE)

\* a request raises (store unreachable, process stopped): the call ends there
Fail(c) ==
    /\ pc[c] # <<>>
    /\ pc' = [pc EXCEPT ![c] = <<>>]
    /\ ret' = [ret EXCEPT ![c] = "error"]
    /\ UNCHANGED <<storeVars, queryVars, cur, embeddings_exist, log, prev, start>>

\* ------------------------------------------------------- the environment
\* a finished call is handed back to its caller before anything else is written
Quiet == \A c \in Callers : ret[c] = "none"

\* record_decision: CREATE (d:Decision {...}) and its association edges; no
\* request of the lifecycle reads an edge, edges only enter the snapshot that a
\* projection takes
RecordDecision ==
    /\ Quiet
    /\ Cardinality(decisions) < MaxDecisions
    /\ decisions' = decisions \cup {Cardinality(decisions) + 1}
    /\ prev' = [c \in Callers |-> NoCall]
    /\ cur' = [c \in Callers |->
                 IF pc[c] # <<>> THEN [cur[c] EXCEPT !.clean = FALSE] ELSE cur[c]]
    /\ UNCHANGED <<queryVars, fastrp_embedding, community_id, communities,
                   belongs_to, catalog, pc, embeddings_exist, log, ret, start>>

\* the graph store restarts: projections are in-memory only
StoreRestart ==
    /\ Quiet
    /\ \A c \in Callers : pc[c] = <<>>
    /\ catalog # {}
    /\ catalog' = {}
    /\ prev' = [c \in Callers |-> NoCall]
    /\ UNCHANGED <<queryVars, decisions, fastrp_embedding, community_id, communities,
                   belongs_to, pc, cur, embeddings_exist, log, ret, start>>

\* ------------------------------------------------------- specifications
Init ==
    /\ decisions = {}
    /\ fastrp_embedding = NoEmbedding
    /\ community_id = [d \in Decisions |-> 0]
    /\ communities = {}
    /\ belongs_to = {}
    /\ catalog = {}
    /\ pc = [c \in Callers |-> <<>>]
    /\ cur = [c \in Callers |-> NoOp]
    /\ embeddings_exist = [c \in Callers |-> FALSE]
    /\ log = [c \in Callers |-> <<>>]
    /\ ret = [c \in Callers |-> "none"]
    /\ prev = [c \in Callers |-> NoCall]
    /\ start = [c \in Callers |-> NoStart]
    /\ NoQuery

\* the requests of the decision-graph lifecycle
Requests(c) ==
    \/ CheckEmb(c)
    \/ CheckGraph(c)
    \/ Drop(c)
    \/ ProjectPlain(c)
    \/ ProjectEmb(c)
    \/ Fastrp(c)
    \/ WriteEmb(c)
    \/ CheckCommunity(c)
    \/ DropGraph(c)
    \/ Louvain(c)
    \/ WriteIds(c)
    \/ MergeCommunities(c)
    \/ LinkMembers(c)
    \/ Aggregate(c)
    \/ Fail(c)

\* the requests of the entity-graph projection
Entity(c) ==
    \/ CheckEntity(c)
    \/ DropEntity(c)
    \/ ProjectEntity(c)

Env == RecordDecision \/ StoreRestart

\* one caller, call after call, on the decision graph, while the graph is written to
Next == Call("a", LifecycleOps) \/ Return("a") \/ Requests("a") \/ Env

Spec == Init /\ [][Next]_vars

\* the requests of a call that runs to its end: none fails on the way
Completing(c) ==
    \/ CheckEmb(c)
    \/ CheckGraph(c)
    \/ Drop(c)
    \/ ProjectPlain(c)
    \/ ProjectEmb(c)
    \/ Fastrp(c)
    \/ WriteEmb(c)
    \/ CheckCommunity(c)
    \/ DropGraph(c)
    \/ Louvain(c)
    \/ WriteIds(c)
    \/ MergeCommunities(c)
    \/ LinkMembers(c)
    \/ Aggregate(c)

\* one caller, one compute_communities run after another, forced or not, each
\* run to its end, while Decisions are recorded and the store restarts
NextRuns == Call("a", {"communities"}) \/ Return("a") \/ Completing("a") \/ Env

SpecRuns == Init /\ [][NextRuns]_vars

\* gds.knn.stream('decision-graph', {nodeProperties: ['fastrp_embedding']}):
\* answered when the catalog holds the projection and it carries the property
KnnAnswers ==
    /\ GraphExists(DecisionGraph)
    /\ Projection(DecisionGraph).hasEmb

\* the algorithm query of find_similar_decisions_knn; it reads, nothing is written
Knn(c) ==
    /\ At(c, "knn")
    /\ IF KnnAnswers THEN Next1(c, "knn") ELSE Raise(c, "knn")
    /\ UNCHANGED <<storeVars, queryVars, cur, embeddings_exist, prev, start>>

\* caller a runs find_similar_decisions_knn while caller b runs ensure or
\* compute_communities; every request is answered, in every interleaving
NextQuery ==
    \/ Call("a", {"knn"})
    \/ Call("b", {"ensure", "communities"})
    \/ Knn("a")
    \/ \E c \in Callers : Completing(c)

\* two callers, one call each, every interleaving of their requests, on a store
\* that holds some Decisions, with or without persisted embeddings
InitConc ==
    /\ decisions \in {1..n : n \in 0..MaxDecisions}
    /\ fastrp_embedding \in
         {NoEmbedding,
          [d \in Decisions |-> IF d \in decisions THEN Cardinality(decisions) ELSE 0]}
    /\ community_id = [d \in Decisions |-> 0]
    /\ communities = {}
    /\ belongs_to = {}
    /\ catalog = {}
    /\ pc = [c \in Callers |-> <<>>]
    /\ cur = [c \in Callers |-> NoOp]
    /\ embeddings_exist = [c \in Callers |-> FALSE]
    /\ log = [c \in Callers |-> <<>>]
    /\ ret = [c \in Callers |-> "none"]
    /\ prev = [c \in Callers |-> NoCall]
    /\ start = [c \in Callers |-> NoStart]
    /\ NoQuery

NextConc == \E c \in Callers : Call(c, Ops) \/ Requests(c) \/ Entity(c)

SpecConc == InitConc /\ [][NextConc]_vars

SpecQuery == InitConc /\ [][NextQuery]_vars

\* --------------------------------------------------- the hybrid retriever
Min(a, b) == IF a < b THEN a ELSE b

MaxOf(S) == CHOOSE x \in S : \A y \in S : y <= x

\* the cosine score the store gives two vectors, in halves: 1.0 for equal
\* vectors, less for different ones
Similarity(u, v) == IF u = v THEN 2 ELSE 1

\* the vectors of an index, each named by the first Decision that carries it
Canonical(idx) ==
    \A d \in Corpus : idx[d] \in {0, d} \/ (idx[d] < d /\ idx[idx[d]] = idx[d])

\* structural vectors are written for all the Decisions of a projection at
\* once, so the Decisions without one are the most recently recorded ones
WrittenTogether(idx) ==
    \A d \in Corpus : idx[d] # 0 => \A e \in 1..d : idx[e] # 0

\* the vectors a scenario text can get: one that a Decision carries, or a new one
Scenarios == {v \in Vectors : v = MaxCorpus + 1 \/ reasoning_idx[v] = v}

\* semantic_weight and structural_weight, in tenths
Weights == {<<10, 0>>, <<6, 4>>, <<5, 5>>}
DefaultWeights == <<6, 4>>

\* the embedding provider: answers, fails, or no API key is configured
Providers == {"ok", "down", "unconfigured"}

\* the nodes a vector index holds: those whose property is not NULL
Indexed(idx) == {d \in Corpus : idx[d] # 0}

\* db.index.vector.queryNodes(index, k, q): the k nearest nodes of the index;
\* which of several equally near nodes are returned is up to the store
QueryNodes(idx, k, q) ==
    {S \in SUBSET Indexed(idx) :
        /\ Cardinality(S) = Min(k, Cardinality(Indexed(idx)))
        /\ \A x \in S, y \in Indexed(idx) \ S :
             Similarity(q, idx[x]) >= Similarity(q, idx[y])}

\* the call raised before or while the query ran; n store queries were sent
Raised(n) ==
    [status |-> "raised", queries |-> n, rows |-> <<>>, candidates |-> {},
     semantic |-> {}, structural |-> {}]

\* plausible slip: the rows are truncated without being sorted
Ranked_Unsorted(cands, limit) ==
    LET n == Min(limit, Cardinality(cands)) IN
    {r \in [1..n -> cands] : \A i, j \in 1..n : i # j => r[i] # r[j]}

\* ORDER BY combined_score DESC LIMIT $limit: the order of equal scores is up
\* to the store
Ranked(cands, limit) ==
    LET n == Min(limit, Cardinality(cands)) IN
    {r \in [1..n -> cands] :
        /\ \A i, j \in 1..n : i # j => r[i] # r[j]
        /\ \A i, j \in 1..n : i < j => r[i].combined_score >= r[j].combined_score
        /\ \A c \in cands : (\A i \in 1..n : r[i] # c) =>
             \A i \in 1..n : r[i].combined_score >= c.combined_score}

\* the query returned: its rows, and what its two index lookups had found
Answered(sem, str, cands, limit) ==
    {[status |-> "ok", queries |-> 1, rows |-> r, candidates |-> cands,
      semantic |-> sem, structural |-> str] : r \in Ranked(cands, limit)}

\* the structural lookup made for each semantic match: a match without a
\* structural vector that yields no row finds nothing
RECURSIVE StructuralAnswers(_, _)
StructuralAnswers(S, k) ==
    IF S = {} THEN {<<>>}
    ELSE LET s == CHOOSE x \in S : TRUE
             found == IF fastrp_idx[s] = 0 THEN {{}}
                      ELSE QueryNodes(fastrp_idx, k, fastrp_idx[s])
         IN {[x \in DOMAIN T \cup {s} |-> IF x = s THEN A ELSE T[x]] :
               T \in StructuralAnswers(S \ {s}, k), A \in found}

\* find_precedents_hybrid: the (semantic_match, structural_match) rows
PrecedentPairs(S, T) == {p \in S \X Corpus : p[2] \in T[p[1]] /\ p[2] # p[1]}

\* find_precedents_hybrid: WITH DISTINCT structural_match, max(combined_score),
\* max(semantic_score), max(structural_score)
PrecedentCandidates(q, S, T, w) ==
    LET pairs == PrecedentPairs(S, T)
        sem(p) == Similarity(q, reasoning_idx[p[1]])
        str(p) == Similarity(fastrp_idx[p[1]], fastrp_idx[p[2]])
        of(t) == {p \in pairs : p[2] = t}
    IN {[id |-> t,
         combined_score |-> MaxOf({sem(p) * w[1] + str(p) * w[2] : p \in of(t)}),
         semantic_similarity |-> MaxOf({sem(p) : p \in of(t)}),
         structural_similarity |-> MaxOf({str(p) : p \in of(t)})] :
          t \in {p[2] : p \in pairs}}

\* find_precedents_hybrid, once the scenario has its vector q: the store query
PrecedentOutcomes(q, w, limit) ==
    UNION {
      (IF \E s \in S : fastrp_idx[s] = 0 THEN {Raised(1)} ELSE {})
      \cup UNION {Answered(S, UNION {T[s] \ {s} : s \in S},
                           PrecedentCandidates(q, S, T, w), limit) :
                    T \in StructuralAnswers(S, limit)} :
      S \in QueryNodes(reasoning_idx, 2 * limit, q)}

\* find_similar_decisions_hybrid: collect(...) + collect(...) over the rows of
\* semantic_match x structural_match, UNWIND, sum per decision
SimilarCandidates(source, S, T, w) ==
    IF S = {} \/ T = {} THEN {}
    ELSE LET total_semantic(d) ==
                 IF d \in S
                 THEN Similarity(reasoning_idx[source], reasoning_idx[d]) * Cardinality(T)
                 ELSE 0
             total_structural(d) ==
                 IF d \in T
                 THEN Similarity(fastrp_idx[source], fastrp_idx[d]) * Cardinality(S)
                 ELSE 0
         IN {[id |-> d,
              combined_score |-> total_semantic(d) * w[1] + total_structural(d) * w[2],
              semantic_similarity |-> total_semantic(d),
              structural_similarity |-> total_structural(d)] : d \in S \cup T}

\* find_similar_decisions_hybrid: the store query
SimilarOutcomes(source, w, limit) ==
    IF reasoning_idx[source] = 0
    THEN {Raised(1)} \cup Answered({}, {}, {}, limit)
    ELSE UNION {
      LET S == S0 \ {source} IN
      IF S = {} THEN Answered(S, {}, {}, limit)
      ELSE IF fastrp_idx[source] = 0
      THEN {Raised(1)} \cup Answered(S, {}, {}, limit)
      ELSE UNION {Answered(S, T0 \ {source},
                           SimilarCandidates(source, S, T0 \ {source}, w), limit) :
                    T0 \in QueryNodes(fastrp_idx, 2 * limit, fastrp_idx[source])} :
      S0 \in QueryNodes(reasoning_idx, 2 * limit, reasoning_idx[source])}

\* plausible slip: a provider failure is swallowed and the search goes on empty
GenerateEmbedding_Swallow(provider, limit) ==
    IF provider = "ok" THEN {} ELSE Answered({}, {}, {}, limit)

\* generate_embedding: raises when no client is configured or the provider fails
GenerateEmbedding(provider, limit) ==
    IF provider = "ok" THEN {} ELSE {Raised(0)}

\* vector_client.find_precedents_hybrid(scenario, None, semantic_weight,
\* structural_weight, limit)
FindPrecedentsHybrid ==
    /\ request = NoRequest
    /\ \E w \in Weights, limit \in 1..MaxLimit, provider \in Providers :
       \E q \in (IF provider = "ok" THEN Scenarios ELSE {0}) :
        /\ request' = [fn |-> "find_precedents_hybrid", via |-> "client",
                       scenario |-> q, source |-> 0, weights |-> w,
                       limit |-> limit, provider |-> provider]
        /\ response' \in (IF provider = "ok" THEN PrecedentOutcomes(q, w, limit)
                          ELSE GenerateEmbedding(provider, limit))
        /\ UNCHANGED <<storeVars, callVars, writerVars, reasoning_idx, fastrp_idx, causal>>

\* the agent tool find_precedents: an exception becomes an {"error": ...} value
ToolResult(r) == IF r.status = "raised" THEN [r EXCEPT !.status = "error"] ELSE r

FindPrecedentsTool ==
    /\ request = NoRequest
    /\ \E limit \in 1..MaxLimit, provider \in Providers :
       \E q \in (IF provider = "ok" THEN Scenarios ELSE {0}) :
        /\ request' = [fn |-> "find_precedents_hybrid", via |-> "agent",
                       scenario |-> q, source |-> 0, weights |-> DefaultWeights,
                       limit |-> limit, provider |-> provider]
        /\ \E r \in (IF provider = "ok" THEN PrecedentOutcomes(q, DefaultWeights, limit)
                     ELSE GenerateEmbedding(provider, limit)) :
             response' = ToolResult(r)
        /\ UNCHANGED <<storeVars, callVars, writerVars, reasoning_idx, fastrp_idx, causal>>

\* vector_client.find_similar_decisions_hybrid(decision_id, semantic_weight,
\* structural_weight, limit)
FindSimilarDecisionsHybrid ==
    /\ request = NoRequest
    /\ \E source \in Corpus, w \in Weights, limit \in 1..MaxLimit :
        /\ request' = [fn |-> "find_similar_decisions_hybrid", via |-> "client",
                       scenario |-> 0, source |-> source, weights |-> w,
                       limit |-> limit, provider |-> "ok"]
        /\ response' \in SimilarOutcomes(source, w, limit)
        /\ UNCHANGED <<storeVars, callVars, writerVars, reasoning_idx, fastrp_idx, causal>>

\* the lifecycle is at rest
NoLifecycle ==
    /\ decisions = {}
    /\ fastrp_embedding = NoEmbedding
    /\ community_id = [d \in Decisions |-> 0]
    /\ communities = {}
    /\ belongs_to = {}
    /\ catalog = {}
    /\ pc = [c \in Callers |-> <<>>]
    /\ cur = [c \in Callers |-> NoOp]
    /\ embeddings_exist = [c \in Callers |-> FALSE]
    /\ log = [c \in Callers |-> <<>>]
    /\ ret = [c \in Callers |-> "none"]
    /\ prev = [c \in Callers |-> NoCall]
    /\ start = [c \in Callers |-> NoStart]

\* a corpus of Decisions, each with or without a semantic and a structural
\* vector, and one search over it (a search writes nothing, so a second one
\* would see the same store)
InitHybrid ==
    /\ NoLifecycle
    /\ reasoning_idx \in {idx \in [Corpus -> 0..MaxCorpus] : Canonical(idx)}
    /\ fastrp_idx \in {idx \in [Corpus -> 0..MaxCorpus] :
                         Canonical(idx) /\ WrittenTogether(idx)}
    /\ causal = {}
    /\ request = NoRequest
    /\ response = NoResponse
    /\ NoWriter

NextHybrid == FindPrecedentsHybrid \/ FindPrecedentsTool \/ FindSimilarDecisionsHybrid

SpecHybrid == InitHybrid /\ [][NextHybrid]_vars

\* ------------------------------------------------- the causal-chain tracer
\* every relationship :CAUSED or :INFLUENCED that could link two Decisions
CausalEdges ==
    [type : {"CAUSED", "INFLUENCED"}, from : Corpus, to : Corpus]

\* [:CAUSED|INFLUENCED*n..n]: the paths of n relationships; a path of a Cypher
\* pattern uses no relationship twice
RECURSIVE Walks(_)
Walks(n) ==
    IF n = 1 THEN {<<e>> : e \in causal}
    ELSE {Append(p[1], p[2]) :
            p \in {q \in Walks(n - 1) \X causal :
                     /\ q[2].from = q[1][n - 1].to
                     /\ \A i \in 1..(n - 1) : q[1][i] # q[2]}}

\* MATCH path = (cause:Decision)-[:CAUSED|INFLUENCED*1..depth]->(d)
CausePaths(d, depth) ==
    UNION {{w \in Walks(n) : w[n].to = d} : n \in 1..depth}

\* MATCH path = (d)-[:CAUSED|INFLUENCED*1..depth]->(effect:Decision)
EffectPaths(d, depth) ==
    UNION {{w \in Walks(n) : w[1].from = d} : n \in 1..depth}

\* plausible slip: the distance counts the nodes of the path
Distance_Nodes(path) == Len(path) + 1

\* length(path) AS distance
Distance(path) == Len(path)

\* RETURN cause {.*, distance: distance}
CauseRow(path) == [id |-> path[1].from, distance |-> Distance(path)]

\* RETURN effect {.*, distance: distance}
EffectRow(path) == [id |-> path[Len(path)].to, distance |-> Distance(path)]

\* ORDER BY distance over one row per path: the order of rows at one distance
\* is up to the store
RECURSIVE Ordered(_, _)
Ordered(paths, cause) ==
    IF paths = {} THEN {<<>>}
    ELSE LET nearest == {p \in paths : \A q \in paths : Len(p) <= Len(q)} IN
         UNION {{<<IF cause THEN CauseRow(p) ELSE EffectRow(p)>> \o rest :
                   rest \in Ordered(paths \ {p}, cause)} : p \in nearest}

\* plausible slip: "both" is answered like "causes"
Traced_BothIsCauses(direction, list) ==
    direction = list \/ (direction = "both" /\ list = "causes")

\* plausible slip: a direction the client does not know is answered like "both"
Traced_UnknownIsBoth(direction, list) ==
    direction = list \/ direction \notin {"causes", "effects"}

\* if direction in ("both", "causes") ... if direction in ("both", "effects")
Traced(direction, list) == direction \in {"both", list}

\* the direction values a caller passes: the three the client knows, and one of
\* those the agent tool's documentation names
Directions == {"both", "causes", "effects", "upstream"}

\* context_graph_client.get_causal_chain(decision_id, direction, depth)
GetCausalChain ==
    /\ request = NoRequest
    /\ \E d \in Corpus, direction \in Directions, depth \in 1..MaxDepth :
         /\ request' = [fn |-> "get_causal_chain", decision_id |-> d,
                        direction |-> direction, depth |-> depth]
         /\ \E causes \in (IF Traced(direction, "causes")
                           THEN Ordered(CausePaths(d, depth), TRUE) ELSE {<<>>}),
               effects \in (IF Traced(direction, "effects")
                            THEN Ordered(EffectPaths(d, depth), FALSE) ELSE {<<>>}) :
              response' = [status |-> "ok", decision_id |-> d,
                           causes |-> causes, effects |-> effects, depth |-> depth]
         /\ UNCHANGED <<storeVars, callVars, writerVars, reasoning_idx, fastrp_idx, causal>>

\* a graph of a few causal relationships between Decisions, as the store may
\* hold it (the store does not constrain them), and one trace over it
InitTrace ==
    /\ NoLifecycle
    /\ reasoning_idx = NoVectors
    /\ fastrp_idx = NoVectors
    /\ causal \in {g \in SUBSET {e \in CausalEdges : e.from # e.to} :
                     Cardinality(g) <= MaxEdges}
    /\ request = NoRequest
    /\ response = NoResponse
    /\ NoWriter

NextTrace == GetCausalChain

SpecTrace == InitTrace /\ [][NextTrace]_vars

\* ------------------------------------------------- the sample-data writer
WrittenTypes == {"CAUSED", "INFLUENCED", "PRECEDENT_FOR"}

\* plausible slip: the relationship is merged for any two distinct Decisions
Earlier_Unguarded(d1, d2) == TRUE

\* WHERE d1.decision_timestamp < d2.decision_timestamp
Earlier(d1, d2) == Timestamp(d1) < Timestamp(d2)

\* one turn of a loop of create_causal_chains: two Decisions drawn at random and,
\* if they differ, MATCH (d1), (d2) WHERE ... MERGE (d1)-[:TYPE {...}]->(d2); a
\* pair that does not pass the WHERE leaves the store as it is
CreateCausalChain ==
    /\ Cardinality(causal) < MaxEdges
    /\ \E t \in WrittenTypes, d1, d2 \in Corpus :
         /\ d1 # d2
         /\ causal' = IF Earlier(d1, d2)
                      THEN causal \cup {[type |-> t, from |-> d1, to |-> d2]}
                      ELSE causal
    /\ UNCHANGED <<storeVars, callVars, writerVars, reasoning_idx, fastrp_idx,
                   request, response>>

\* ------------------------------------------------- the agent's Cypher tool
\* the words execute_cypher looks for in the upper-cased statement
Keywords == {"CREATE", "MERGE", "DELETE", "SET", "REMOVE", "DROP"}

\* statements the tool may be handed: spelled = the keywords that occur in the
\* upper-cased text, effect = what the store does with the statement when run
Statements ==
    {[text |-> "MATCH (d:Decision) RETURN d.id",
      spelled |-> {}, effect |-> "none"],
     [text |-> "CREATE (:Decision {id: 'x'})",
      spelled |-> {"CREATE"}, effect |-> "write"],
     [text |-> "MATCH (d:Decision) SET d.fastrp_embedding = null",
      spelled |-> {"SET"}, effect |-> "write"],
     [text |-> "MATCH (d:Decision) DETACH DELETE d",
      spelled |-> {"DELETE"}, effect |-> "write"],
     [text |-> "CALL gds.graph.drop('decision-graph', false)",
      spelled |-> {"DROP"}, effect |-> "drop"],
     [text |-> "CALL gds.graph.project('decision-graph', 'Decision', '*')",
      spelled |-> {}, effect |-> "project"]}

\* the statement changes the graph or the projection registry when it is run
Mutating(stmt) == stmt.effect # "none"

\* any(keyword in cypher_upper for keyword in [...])
Rejected(stmt) == stmt.spelled \cap Keywords # {}

\* execute_cypher, under the agent tool of the same name: a rejected statement
\* raises ValueError before a session is opened, any other is run by the store
ExecuteCypher ==
    /\ request = NoRequest
    /\ \E stmt \in Statements :
         /\ request' = [fn |-> "execute_cypher", cypher |-> stmt]
         /\ IF Rejected(stmt)
            THEN /\ response' = [status |-> "error", error |-> "Query not allowed"]
                 /\ UNCHANGED catalog
            ELSE IF stmt.effect = "project"
            THEN IF GraphExists(DecisionGraph)
                 THEN /\ response' = [status |-> "error", error |-> "raised"]
                      /\ UNCHANGED catalog
                 ELSE /\ response' = [status |-> "ok"]
                      /\ catalog' = catalog \cup {NewProjection(DecisionGraph, FALSE)}
            ELSE /\ response' = [status |-> "ok"]
                 /\ UNCHANGED catalog
    /\ UNCHANGED <<decisions, fastrp_embedding, community_id, communities, belongs_to,
                   callVars, writerVars, reasoning_idx, fastrp_idx, causal>>

\* the store once the sample data is loaded: some Decisions, no relationship
\* between them yet; the script then writes the causal relationships while the
\* agent is handed one Cypher statement
InitStore ==
    /\ decisions \in {1..n : n \in 1..MaxDecisions}
    /\ fastrp_embedding = NoEmbedding
    /\ community_id = [d \in Decisions |-> 0]
    /\ communities = {}
    /\ belongs_to = {}
    /\ catalog = {}
    /\ pc = [c \in Callers |-> <<>>]
    /\ cur = [c \in Callers |-> NoOp]
    /\ embeddings_exist = [c \in Callers |-> FALSE]
    /\ log = [c \in Callers |-> <<>>]
    /\ ret = [c \in Callers |-> "none"]
    /\ prev = [c \in Callers |-> NoCall]
    /\ start = [c \in Callers |-> NoStart]
    /\ NoQuery

NextStore == CreateCausalChain \/ ExecuteCypher

SpecStore == InitStore /\ [][NextStore]_vars

\* ------------------------------------------------------- record_decision
EntityLabels == {"Person", "Account", "Transaction"}

\* the entity nodes the store may hold: one of each label, with id 1
EntityNodes == {<<l, 1>> : l \in EntityLabels}

\* an id that no Decision carries
MissingId == MaxDecisions + 1

\* MATCH (n:Label {id: $id}) finds a node
Exists(node) ==
    IF node[1] = "Decision" THEN node[2] \in decisions ELSE node \in entities

\* plausible slip: the edge is merged as one pattern, matched target or not
Linked_Unmatched(d, type, target) == {[type |-> type, from |-> d, to |-> target]}

\* MATCH (d:Decision {id: $decision_id}) MATCH (t:Label {id: $id}) MERGE (d)-[:TYPE]->(t)
Linked(d, type, target) ==
    IF d \in decisions /\ Exists(target)
    THEN {[type |-> type, from |-> d, to |-> target]}
    ELSE {}

CreateRequest == [q |-> "create", type |-> "none", to |-> <<"none", 0>>]

LinkRequest(type, label, id) == [q |-> "link", type |-> type, to |-> <<label, id>>]

\* if customer_id: ... (None sends no request); 0 stands for None
Optional(type, label, id) ==
    IF id # 0 THEN <<LinkRequest(type, label, id)>> ELSE <<>>

\* the lists a caller may pass as precedent_ids: ids of Decisions recorded
\* before, or an id that matches none; the new Decision's own id is a fresh
\* uuid4 no caller can pass
PrecedentLists(id) ==
    LET ids == (1..MissingId) \ {id}
    IN {<<>>} \cup {<<p>> : p \in ids}
        \cup {<<pq[1], pq[2]>> : pq \in {x \in ids \X ids : x[1] # x[2]}}

\* record_decision: the requests it sends, in order
RecordPlan(customer_id, account_id, transaction_id, precedent_ids) ==
    <<CreateRequest>>
    \o Optional("ABOUT", "Person", customer_id)
    \o Optional("ABOUT", "Account", account_id)
    \o Optional("ABOUT", "Transaction", transaction_id)
    \o [i \in 1..Len(precedent_ids) |->
          LinkRequest("FOLLOWED_PRECEDENT", "Decision", precedent_ids[i])]

\* decision_id = str(uuid.uuid4()) and the arguments of the call
RecordDecisionCall ==
    /\ recording.status = "none"
    /\ Cardinality(decisions) < MaxDecisions
    /\ LET id == Cardinality(decisions) + 1 IN
       \E customer_id, account_id, transaction_id \in {0, 1} :
         \E precedent_ids \in PrecedentLists(id) :
           LET plan == RecordPlan(customer_id, account_id, transaction_id,
                                  precedent_ids)
           IN recording' = [pc |-> plan, plan |-> plan, id |-> id,
                            status |-> "running", returned |-> 0,
                            before |-> entities]
    /\ UNCHANGED <<storeVars, callVars, reasoning_idx, fastrp_idx, causal, request,
                   response, entities, links, reasoning, backfill>>

\* the request at the head of pc was answered; after the last one the method
\* returns decision_id
Answered1 ==
    LET cont == Tail(recording.pc)
    IN recording' = [recording EXCEPT
                       !.pc = cont,
                       !.status = IF cont = <<>> THEN "ok" ELSE "running",
                       !.returned = IF cont = <<>> THEN recording.id ELSE 0]

\* CREATE (d:Decision {id: $decision_id, ...})
RecordCreate ==
    /\ recording.status = "running"
    /\ Head(recording.pc).q = "create"
    /\ decisions' = decisions \cup {recording.id}
    /\ Answered1
    /\ UNCHANGED <<fastrp_embedding, community_id, communities, belongs_to, catalog,
                   callVars, reasoning_idx, fastrp_idx, causal, request, response,
                   entities, links, reasoning, backfill>>

\* one of the link requests: to the customer, the account, the transaction or
\* a precedent
RecordLink ==
    /\ recording.status = "running"
    /\ Head(recording.pc).q = "link"
    /\ links' = links \cup Linked(recording.id, Head(recording.pc).type,
                                  Head(recording.pc).to)
    /\ Answered1
    /\ UNCHANGED <<storeVars, callVars, reasoning_idx, fastrp_idx, causal, request,
                   response, entities, reasoning, backfill>>

\* session.run raises (the store is unreachable, the session has expired): the
\* exception leaves record_decision, the agent tool answers {"error": ...}; pc
\* keeps the request that raised
RecordRaise ==
    /\ recording.status = "running"
    /\ recording' = [recording EXCEPT !.status = "error"]
    /\ UNCHANGED <<storeVars, callVars, reasoning_idx, fastrp_idx, causal, request,
                   response, entities, links, reasoning, backfill>>

\* the tool's answer is handed to the agent
RecordReturn ==
    /\ recording.status \in {"ok", "error"}
    /\ recording' = NoRecording
    /\ UNCHANGED <<storeVars, callVars, reasoning_idx, fastrp_idx, causal, request,
                   response, entities, links, reasoning, backfill>>

\* a store with some of the entity nodes and no Decision yet
InitRecord ==
    /\ NoLifecycle
    /\ reasoning_idx = NoVectors
    /\ fastrp_idx = NoVectors
    /\ causal = {}
    /\ request = NoRequest
    /\ response = NoResponse
    /\ entities \in SUBSET EntityNodes
    /\ links = {}
    /\ recording = NoRecording
    /\ reasoning = {}
    /\ backfill = NoBackfill

NextRecord ==
    RecordDecisionCall \/ RecordCreate \/ RecordLink \/ RecordRaise \/ RecordReturn

SpecRecord == InitRecord /\ [][NextRecord]_vars

\* -------------------------------------------- the startup embedding backfill
\* the loop passes limit=100; the model's batches hold up to MaxLimit Decisions
BatchLimit == MaxLimit

\* MATCH (d:Decision) WHERE d.reasoning_embedding IS NULL AND d.reasoning IS NOT NULL
Lacking == {d \in reasoning : reasoning_idx[d] = 0}

\* ... RETURN d.id, d.reasoning LIMIT $limit: any rows of the match, in any
\* order, as many as the limit allows
Batches ==
    LET n == Min(BatchLimit, Cardinality(Lacking))
    IN {b \in [1..n -> Lacking] : \A i, j \in 1..n : b[i] = b[j] => i = j}

\* total_generated = 0; while True:
BackfillStart ==
    /\ backfill.pc = "none"
    /\ backfill' = [backfill EXCEPT !.pc = "select"]
    /\ UNCHANGED <<storeVars, callVars, reasoning_idx, fastrp_idx, causal, request,
                   response, entities, links, recording, reasoning>>

\* batch_update_decision_embeddings: the query for Decisions without an
\* embedding; with no row the method returns 0
BackfillSelect ==
    /\ backfill.pc = "select"
    /\ \E b \in Batches :
         backfill' = [backfill EXCEPT
                        !.pc = IF b = <<>> THEN "report" ELSE "embed",
                        !.batch = b,
                        !.rest = <<>>,
                        !.count = 0,
                        !.lacking = Cardinality(Lacking)]
    /\ UNCHANGED <<storeVars, callVars, reasoning_idx, fastrp_idx, causal, request,
                   response, entities, links, recording, reasoning>>

\* generate_embeddings_batch(texts): one embedding per text, or the provider
\* raises (no API key, request refused) and the loop ends with a warning
BackfillEmbed ==
    /\ backfill.pc = "embed"
    /\ \E provider \in Providers :
         backfill' = IF provider = "ok"
                     THEN [backfill EXCEPT !.pc = "write", !.rest = backfill.batch]
                     ELSE [backfill EXCEPT !.pc = "failed"]
    /\ UNCHANGED <<storeVars, callVars, reasoning_idx, fastrp_idx, causal, request,
                   response, entities, links, recording, reasoning>>

\* for decision, embedding in zip(decisions, embeddings): MATCH (d:Decision
\* {id: $decision_id}) SET d.reasoning_embedding = $embedding; after the last
\* one the method returns len(decisions)
BackfillWrite ==
    /\ backfill.pc = "write"
    /\ LET d == Head(backfill.rest)
           cont == Tail(backfill.rest)
       IN /\ reasoning_idx' = [reasoning_idx EXCEPT ![d] = d]
          /\ backfill' = [backfill EXCEPT
                            !.rest = cont,
                            !.pc = IF cont = <<>> THEN "report" ELSE "write",
                            !.count = IF cont = <<>> THEN Len(backfill.batch) ELSE 0]
    /\ UNCHANGED <<storeVars, callVars, fastrp_idx, causal, request, response,
                   entities, links, recording, reasoning>>

\* plausible slip: the loop is left after the first batch
Break_AfterFirst(count) == TRUE

\* if count == 0: break
Break(count) == count = 0

\* the method has returned count: the loop breaks, or total_generated += count
\* and the next batch is asked for
BackfillReport ==
    /\ backfill.pc = "report"
    /\ backfill' = [backfill EXCEPT
                      !.pc = IF Break(backfill.count) THEN "done" ELSE "select",
                      !.total_generated = @ + backfill.count]
    /\ UNCHANGED <<storeVars, callVars, reasoning_idx, fastrp_idx, causal, request,
                   response, entities, links, recording, reasoning>>

\* a request to the store raises: except Exception: logger.warning(...); break
BackfillRaise ==
    /\ backfill.pc \in {"select", "write"}
    /\ backfill' = [backfill EXCEPT !.pc = "failed"]
    /\ UNCHANGED <<storeVars, callVars, reasoning_idx, fastrp_idx, causal, request,
                   response, entities, links, recording, reasoning>>

\* the store at startup: a corpus of Decisions, with or without reasoning text,
\* with or without a semantic embedding
InitBackfill ==
    /\ NoLifecycle
    /\ reasoning_idx \in {idx \in [Corpus -> 0..MaxCorpus] :
                            \A d \in Corpus : idx[d] \in {0, d}}
    /\ fastrp_idx = NoVectors
    /\ causal = {}
    /\ request = NoRequest
    /\ response = NoResponse
    /\ entities = {}
    /\ links = {}
    /\ recording = NoRecording
    /\ reasoning \in SUBSET Corpus
    /\ backfill = NoBackfill

NextBackfill ==
    \/ BackfillStart
    \/ BackfillSelect
    \/ BackfillEmbed
    \/ BackfillWrite
    \/ BackfillReport
    \/ BackfillRaise

SpecBackfill == InitBackfill /\ [][NextBackfill]_vars

\* the startup coroutine is not suspended inside the loop: its next step is
\* taken as long as there is one
SpecBackfillLive == SpecBackfill /\ WF_vars(NextBackfill)

\* ------------------------------------------------------------ properties
\* c has just finished a call to operation o without an error
Finished(c, o) == cur[c].op = o /\ pc[c] = <<>> /\ ret[c] \notin {"none", "error"}

\* this step is a request (or the failure) of caller c's call in progress
StepOf(c) == pc[c] # <<>> /\ pc'[c] # pc[c]

EnsureNoOpLog == <<"checkEmb", "checkGraph">>
EnsureLoadLog == <<"checkEmb", "checkGraph", "drop", "projectEmb">>
EnsureComputeLog ==
    <<"checkEmb", "checkGraph", "drop", "projectPlain", "fastrp", "writeEmb",
      "drop", "projectEmb">>
ClusterLog == <<"louvain", "writeIds", "mergeCommunities", "linkMembers", "aggregate">>

\* C1: a second ensure call, made right after a first one that returned and with
\* no mutation of the store in between, runs no embedding computation,
\* whatever the store holds
C1_SecondEnsureRunsNoAlgorithm ==
    \A c \in Callers :
        (prev[c] = "ensure" /\ Finished(c, "ensure")) => "fastrp" \notin Range(log[c])

\* C2: with no structural embedding persisted, a completed ensure call has sent
\* exactly: the two checks, drop + project without embeddings, FastRP, the write
\* to the store, drop + project with the embeddings
C2_EnsureStepsWithoutEmbeddings ==
    \A c \in Callers :
        (Finished(c, "ensure") /\ ~start[c].emb) => log[c] = EnsureComputeLog

C2_Witness ==
    \E c \in Callers :
        /\ Finished(c, "ensure")
        /\ ~start[c].emb
        /\ start[c].graph
        /\ decisions # {}
        /\ log[c] = EnsureComputeLog

\* C3: when embeddings are persisted and the projection exists, every step of an
\* ensure call is one of its two read-only checks and leaves the store as it was
C3_EnsureNoOp ==
    [][\A c \in Callers :
         (StepOf(c) /\ cur[c].op = "ensure" /\ start[c].emb /\ start[c].graph)
         => /\ UNCHANGED storeVars
            /\ Head(pc[c]) \in {"checkEmb", "checkGraph"}
            /\ pc'[c] = <<>> /\ ret'[c] # "error" => log'[c] = EnsureNoOpLog]_vars

C3_Witness ==
    \E c \in Callers :
        /\ Finished(c, "ensure")
        /\ start[c].emb
        /\ start[c].graph
        /\ log[c] = EnsureNoOpLog

\* C4: a call that begins once embeddings are persisted (an ensure call, or the
\* ensure steps of write_community_ids) never computes embeddings, never writes
\* them and never projects without them, whatever was recorded since
C4_NoAutomaticInvalidation ==
    [][\A c \in Callers :
         (StepOf(c) /\ cur[c].op \in {"ensure", "communities"} /\ start[c].emb)
         => /\ fastrp_embedding' = fastrp_embedding
            /\ Head(pc[c]) \notin {"fastrp", "writeEmb", "projectPlain"}]_vars

C4_Witness ==
    \E c \in Callers :
        /\ Finished(c, "ensure")
        /\ start[c].emb
        /\ \E d \in decisions : fastrp_embedding[d] = 0
        /\ \E d \in decisions : fastrp_embedding[d] \in 1..(Cardinality(decisions) - 1)
        /\ log[c] = EnsureLoadLog

\* C5 as claimed: an unforced call that finds Community aggregates changes neither
\* the projections nor any community id, Community node or membership link, runs
\* no clustering and returns "already computed"
C5_AlreadyComputedTouchesNothing ==
    [][\A c \in Callers :
         (StepOf(c) /\ cur[c].op = "communities" /\ ~cur[c].force /\ start[c].comm)
         => /\ UNCHANGED <<catalog, community_id, communities, belongs_to>>
            /\ Head(pc[c]) # "louvain"
            /\ pc'[c] = <<>> /\ ret'[c] # "error" => ret'[c] = "already_computed"]_vars

\* C5 amended: such a call changes no community id, Community node or membership
\* link, runs no clustering, never reaches the pipeline's drop, and returns
\* "already computed"; the projections are untouched when the projection existed
\* and embeddings were persisted, else the initial ensure step (re)creates it
C5_AlreadyComputedKeepsCommunities ==
    [][\A c \in Callers :
         (StepOf(c) /\ cur[c].op = "communities" /\ ~cur[c].force /\ start[c].comm)
         => /\ UNCHANGED <<community_id, communities, belongs_to>>
            /\ Head(pc[c]) \notin {"dropGraph"} \cup Range(ClusterLog)
            /\ start[c].emb /\ start[c].graph => UNCHANGED <<catalog, fastrp_embedding>>
            /\ pc'[c] = <<>> /\ ret'[c] # "error" => ret'[c] = "already_computed"]_vars

C5_Witness ==
    \E c \in Callers :
        /\ Finished(c, "communities")
        /\ ~cur[c].force
        /\ start[c].comm
        /\ ~start[c].graph
        /\ ret[c] = "already_computed"
        /\ log[c] = EnsureLoadLog \o <<"checkCommunity">>

\* C6: an unforced call made right after an unforced call that returned without
\* error returns "already computed", whatever the graph holds
C6_SecondCallAlreadyComputed ==
    \A c \in Callers :
        (prev[c] = "communities" /\ Finished(c, "communities") /\ ~cur[c].force)
        => ret[c] = "already_computed"

\* C7: a call that is forced, or finds no Community aggregate, and completes has
\* sent the whole pipeline in order: (ensure, the check unless forced,) drop,
\* re-creation of the projection, Louvain, write of the ids, Community nodes,
\* membership links, aggregates
C7_PipelineOrder ==
    \A c \in Callers :
        (Finished(c, "communities") /\ (cur[c].force \/ ~start[c].comm))
        => /\ ret[c] = "computed"
           /\ \E pre \in {EnsureNoOpLog, EnsureLoadLog, EnsureComputeLog},
                 re \in {EnsureLoadLog, EnsureComputeLog} :
                 log[c] = pre \o (IF cur[c].force THEN <<>> ELSE <<"checkCommunity">>)
                          \o <<"dropGraph">> \o re \o ClusterLog

C7_Witness ==
    \E c \in Callers :
        /\ Finished(c, "communities")
        /\ cur[c].force
        /\ start[c].comm
        /\ decisions # {}
        /\ log[c] = EnsureNoOpLog \o <<"dropGraph">> \o EnsureLoadLog \o ClusterLog

\* C8: when a forced call completes, every Decision that carries a community id
\* has the Community node of that id and a membership link to it, in whatever
\* state earlier attempts left the store
C8_ForcedRunConverges ==
    \A c \in Callers :
        (Finished(c, "communities") /\ cur[c].force) => Consistent

C8_Witness ==
    \E c \in Callers :
        /\ Finished(c, "communities")
        /\ cur[c].force
        /\ ~start[c].consistent
        /\ \E d \in decisions : community_id[d] # 0

\* C9: a community id already written on a Decision changes only in a step of a
\* forced call
C9_IdsChangeOnlyWhenForced ==
    [][\A d \in Decisions :
         (community_id[d] # 0 /\ community_id'[d] # community_id[d])
         => \E c \in Callers : StepOf(c) /\ cur[c].op = "communities" /\ cur[c].force]_vars

\* C10: the catalog never holds two projections of one name, and every project
\* request a caller sends comes right after that caller's drop of the same name
C10_OneProjectionPerName ==
    /\ \A p, q \in catalog : p.name = q.name => p = q
    /\ \A c \in Callers : \A i \in 1..Len(log[c]) :
         /\ log[c][i] \in {"projectPlain", "projectEmb"} => i > 1 /\ log[c][i-1] = "drop"
         /\ log[c][i] = "projectEntity" => i > 1 /\ log[c][i-1] = "dropEntity"

C10_Witness ==
    /\ GraphExists(DecisionGraph)
    /\ GraphExists(EntityGraph)
    /\ \E c, e \in Callers :
         /\ c # e
         /\ "projectEmb" \in Range(log[c])
         /\ "projectEntity" \in Range(log[e])
         /\ pc[c] = <<>> /\ pc[e] = <<>>

\* C11: while two callers run ensure concurrently, under every interleaving no
\* request of either call is refused by the store, and once both calls have
\* returned the projection is present with the embeddings loaded and every
\* Decision's embedding is persisted
C11_ConcurrentEnsureOnlyDuplicatesWork ==
    [][(\A e \in Callers : cur[e].op = "ensure") =>
         \A c \in Callers :
           (StepOf(c) /\ log'[c] # log[c]) =>
             /\ ret'[c] # "error"
             /\ (\A e \in Callers : pc'[e] = <<>> /\ ret'[e] = "ok") =>
                  /\ \E p \in catalog' : p.name = DecisionGraph /\ p.hasEmb
                  /\ \A d \in decisions : fastrp_embedding'[d] # 0]_vars

\* the retriever has answered with a list of rows
Answer(fn) == request.fn = fn /\ response.status = "ok"

Hybrid == {"find_precedents_hybrid", "find_similar_decisions_hybrid"}

\* the query vector of the semantic lookup
QueryVector ==
    IF request.fn = "find_precedents_hybrid" THEN request.scenario
    ELSE reasoning_idx[request.source]

\* decision_timestamp: Decisions are numbered in recording order

\* C12: in every returned row, combined_score is that row's semantic sub-score
\* times semantic_weight plus its structural sub-score times structural_weight
C12_CombinedIsWeightedSum ==
    \A fn \in Hybrid : Answer(fn) =>
        \A i \in 1..Len(response.rows) :
            LET r == response.rows[i] IN
            r.combined_score = r.semantic_similarity * request.weights[1]
                               + r.structural_similarity * request.weights[2]

\* C13: the candidates are exactly the Decisions found by the semantic or the
\* structural lookup; a candidate's semantic sub-score is its own similarity to
\* the query if the semantic lookup found it and 0 otherwise, and its structural
\* sub-score is 0 if the structural lookup did not find it
C13_MergeByIdentity ==
    \A fn \in Hybrid : Answer(fn) =>
        /\ {c.id : c \in response.candidates} = response.semantic \cup response.structural
        /\ \A c \in response.candidates :
             /\ c.semantic_similarity =
                  IF c.id \in response.semantic
                  THEN Similarity(QueryVector, reasoning_idx[c.id]) ELSE 0
             /\ c.id \notin response.structural => c.structural_similarity = 0
             /\ (fn = "find_similar_decisions_hybrid" /\ c.id \in response.structural)
                => c.structural_similarity =
                     Similarity(fastrp_idx[request.source], fastrp_idx[c.id])

\* C14: the returned rows are in non-increasing order of combined_score, there
\* are at most limit of them, and no candidate left out scores higher than a
\* returned one
C14_RankedByCombinedScore ==
    \A fn \in Hybrid : Answer(fn) =>
        LET rows == response.rows IN
        /\ Len(rows) <= request.limit
        /\ \A i, j \in 1..Len(rows) : i < j => rows[i].combined_score >= rows[j].combined_score
        /\ \A c \in response.candidates \ Range(rows) :
             \A i \in 1..Len(rows) : c.combined_score <= rows[i].combined_score

C14_Witness ==
    /\ Answer("find_precedents_hybrid")
    /\ Cardinality(response.candidates) > request.limit
    /\ Len(response.rows) = request.limit
    /\ \E c \in response.candidates \ Range(response.rows) :
         c.combined_score < response.rows[Len(response.rows)].combined_score

\* C15: of two returned rows with equal combined_score, the Decision with the
\* more recent timestamp comes first
C15_TieBreakByRecency ==
    \A fn \in Hybrid : Answer(fn) =>
        \A i, j \in 1..Len(response.rows) :
            (i < j /\ response.rows[i].combined_score = response.rows[j].combined_score)
            => Timestamp(response.rows[i].id) > Timestamp(response.rows[j].id)

\* C16: with weights 1.0 and 0.0, find_precedents_hybrid returns Decisions of
\* the semantic lookup, as many as limit allows, in non-increasing order of their
\* own semantic similarity to the scenario
C16_PureSemanticOrder ==
    (Answer("find_precedents_hybrid") /\ request.weights = <<10, 0>>) =>
        LET rows == response.rows
            own(i) == Similarity(request.scenario, reasoning_idx[rows[i].id])
        IN /\ \A i \in 1..Len(rows) : rows[i].id \in response.semantic
           /\ Len(rows) = Min(request.limit, Cardinality(response.semantic))
           /\ \A i, j \in 1..Len(rows) : i < j => own(i) >= own(j)

\* C17: a search run while every Decision has a semantic vector and no Decision
\* has a structural vector raises no error
\* and returns the semantic matches, as many as limit allows, in semantic order,
\* each with structural sub-score 0
C17_SemanticOnlyIndex ==
    \A fn \in Hybrid :
        (/\ request.fn = fn /\ request.provider = "ok"
         /\ Indexed(reasoning_idx) = Corpus /\ Indexed(fastrp_idx) = {}) =>
            /\ response.status = "ok"
            /\ LET rows == response.rows
                   own(i) == Similarity(QueryVector, reasoning_idx[rows[i].id])
               IN /\ Len(rows) = Min(request.limit, Cardinality(response.semantic))
                  /\ \A i \in 1..Len(rows) :
                       /\ rows[i].id \in response.semantic
                       /\ rows[i].structural_similarity = 0
                  /\ \A i, j \in 1..Len(rows) : i < j => own(i) >= own(j)

\* C18: when the embedding provider fails, a scenario search ends with an error
\* (an exception from the client, an error value from the agent tool), with no
\* row and without any query sent to the store
C18_ProviderFailurePropagates ==
    (request.fn = "find_precedents_hybrid" /\ request.provider # "ok") =>
        /\ response.status = (IF request.via = "agent" THEN "error" ELSE "raised")
        /\ response.rows = <<>>
        /\ response.queries = 0

C18_Witness ==
    /\ request.fn = "find_precedents_hybrid"
    /\ request.via = "agent"
    /\ request.provider = "down"
    /\ Indexed(reasoning_idx) = Corpus
    /\ response.status = "error"

\* a trace has been answered
Traces(direction) ==
    /\ request.fn = "get_causal_chain"
    /\ request.direction = direction
    /\ response.status = "ok"

\* every causal relationship leads from an earlier Decision to a later one
TimeOrdered == \A e \in causal : Timestamp(e.from) < Timestamp(e.to)

Ids(rows) == {rows[i].id : i \in 1..Len(rows)}

\* there is a chain of n causal relationships from a to b
RECURSIVE Chain(_, _, _)
Chain(a, b, n) ==
    IF n = 1 THEN \E e \in causal : e.from = a /\ e.to = b
    ELSE \E e \in causal : e.from = a /\ Chain(e.to, b, n - 1)

\* C19: on a time-ordered graph, a trace in direction "both" holds in causes one
\* row per path of at most depth relationships into the Decision (the rows of a
\* "causes" trace), in effects one row per such path out of it (the rows of an
\* "effects" trace), and no Decision is in both lists
C19_BothIsDisjointUnion ==
    (Traces("both") /\ TimeOrdered) =>
        LET d == request.decision_id
            into == CausePaths(d, request.depth)
            outof == EffectPaths(d, request.depth)
        IN /\ Range(response.causes) = {CauseRow(p) : p \in into}
           /\ Len(response.causes) = Cardinality(into)
           /\ Range(response.effects) = {EffectRow(p) : p \in outof}
           /\ Len(response.effects) = Cardinality(outof)
           /\ Ids(response.causes) \cap Ids(response.effects) = {}

C19_Witness ==
    /\ Traces("both")
    /\ TimeOrdered
    /\ request.depth = MaxDepth
    /\ Len(response.causes) >= 1
    /\ Len(response.effects) >= 2

\* C20: every row of a trace carries a distance between 1 and depth that is the
\* length of a chain of causal relationships between it and the traced Decision
\* in the list's direction, each list is in ascending order of distance, and a
\* direct predecessor is in causes at distance 1
C20_HopDistance ==
    (request.fn = "get_causal_chain" /\ response.status = "ok") =>
        LET d == request.decision_id
            causes == response.causes
            effects == response.effects
        IN /\ \A i \in 1..Len(causes) :
                /\ causes[i].distance \in 1..request.depth
                /\ Chain(causes[i].id, d, causes[i].distance)
           /\ \A i \in 1..Len(effects) :
                /\ effects[i].distance \in 1..request.depth
                /\ Chain(d, effects[i].id, effects[i].distance)
           /\ \A i, j \in 1..Len(causes) : i < j => causes[i].distance <= causes[j].distance
           /\ \A i, j \in 1..Len(effects) : i < j => effects[i].distance <= effects[j].distance
           /\ request.direction = "causes" =>
                \A e \in causal : e.to = d =>
                    \E i \in 1..Len(causes) : causes[i] = [id |-> e.from, distance |-> 1]

C20_Witness ==
    /\ Traces("causes")
    /\ TimeOrdered
    /\ request.depth = 1
    /\ \E e, f \in causal :
         /\ e.type = "CAUSED"
         /\ e.to = request.decision_id
         /\ f.to = e.from
         /\ response.causes = <<[id |-> e.from, distance |-> 1]>>

\* the least number of causal relationships on a chain from a to b, 0 if none
\* has at most n relationships
RECURSIVE Shortest(_, _, _)
Shortest(a, b, n) ==
    IF n = 0 THEN 0
    ELSE LET s == Shortest(a, b, n - 1) IN
         IF s # 0 THEN s ELSE IF Chain(a, b, n) THEN n ELSE 0

\* C25: in each list of a trace, every Decision within depth hops appears in
\* exactly one row, and that row carries its shortest hop distance
C25_OnceAtShortestDistance ==
    (request.fn = "get_causal_chain" /\ response.status = "ok" /\ TimeOrdered) =>
        LET d == request.decision_id
            causes == response.causes
            effects == response.effects
        IN /\ \A i, j \in 1..Len(causes) : causes[i].id = causes[j].id => i = j
           /\ \A i, j \in 1..Len(effects) : effects[i].id = effects[j].id => i = j
           /\ \A i \in 1..Len(causes) :
                causes[i].distance = Shortest(causes[i].id, d, request.depth)
           /\ \A i \in 1..Len(effects) :
                effects[i].distance = Shortest(d, effects[i].id, request.depth)

C26_EnsureEstablishesProjection ==
    \A c \in Callers :
        (Finished(c, "ensure") /\ decisions # {}) =>
            \E p \in catalog : p.name = DecisionGraph /\ p.hasEmb

\* C27: when a compute_communities run has completed, every Decision has at most
\* one membership link, that link leads to the Community of the Decision's
\* current community id, and every Community node has a member
C27_OneLinkPerDecision ==
    \A c \in Callers :
        Finished(c, "communities") =>
            /\ \A l \in belongs_to : community_id[l[1]] = l[2]
            /\ \A k \in communities :
                 \E d \in decisions : community_id[d] = k /\ <<d, k>> \in belongs_to

\* C28: an algorithm query sent after its own ensure step finds the projection
\* in the catalog, whatever another caller running ensure or
\* compute_communities does in between: the k-NN request of
\* find_similar_decisions_knn is never sent to a catalog that lacks it
C28_QueryFindsProjection ==
    [][\A c \in Callers :
         (At(c, "knn") /\ log'[c] = Append(log[c], "knn")) =>
             GraphExists(DecisionGraph)]_vars

\* there is a chain of causal relationships of any type from a to b
Leads(a, b) == \E n \in 1..MaxCorpus : Chain(a, b, n)

\* C21: every causal relationship (CAUSED, INFLUENCED, PRECEDENT_FOR) leads
\* from a Decision to one with a strictly later timestamp; so no chain of them
\* comes back to where it started and no Decision is its own cause or effect
C21_CausesPrecedeEffects ==
    /\ \A e \in causal : Timestamp(e.from) < Timestamp(e.to)
    /\ \A d \in Corpus : ~Leads(d, d)

C21_Witness ==
    /\ \E e, f \in causal : e.to = f.from /\ e.type # f.type
    /\ \E e \in causal : e.type = "PRECEDENT_FOR"
    /\ Cardinality(causal) = MaxEdges

\* C24: a statement that changes the graph or the projection registry, handed
\* to execute_cypher, is rejected and leaves the store as it was, however the
\* statement is spelled
C24_MutationsRejected ==
    [][\A stmt \in Statements :
         (request = NoRequest /\ request' = [fn |-> "execute_cypher", cypher |-> stmt]
          /\ Mutating(stmt)) =>
             (response'.status = "error" /\ UNCHANGED storeVars)]_vars

\* C22: once the Decision node of a record_decision call is in the store, the
\* call ends by returning that Decision's id, also when a later link request
\* fails: it never ends without the id while the node stays
C22_IdReturnedOnceCreated ==
    (recording.status \in {"ok", "error"} /\ recording.id \in decisions) =>
        (recording.status = "ok" /\ recording.returned = recording.id)

\* this step is a link request of record_decision being answered
LinkAnswered ==
    /\ recording.status = "running"
    /\ Head(recording.pc).q = "link"
    /\ recording'.pc = Tail(recording.pc)

\* C23: every association edge has both its endpoints in the store; a link
\* request whose target matches no node is answered without an error and adds
\* neither an edge nor a node, and the call goes on
C23_EdgesOnlyToExistingTargets ==
    /\ [](\A l \in links : l.from \in decisions /\ Exists(l.to))
    /\ [](recording.status # "none" => entities = recording.before)
    /\ [][(LinkAnswered /\ ~Exists(Head(recording.pc).to)) =>
            (links' = links /\ entities' = entities
             /\ recording'.status # "error")]_vars

C23_Witness ==
    /\ recording.status = "ok"
    /\ \E i, j \in 1..Len(recording.plan) :
         /\ recording.plan[i].q = "link"
         /\ ~Exists(recording.plan[i].to)
         /\ recording.plan[j].type = "FOLLOWED_PRECEDENT"
         /\ [type |-> "FOLLOWED_PRECEDENT", from |-> recording.id,
             to |-> recording.plan[j].to] \in links
    /\ \E l \in links : l.type = "ABOUT" /\ l.from = recording.id

\* C30: the startup backfill loop ends; when it ends by a count of 0 every
\* Decision with reasoning text has a semantic embedding; and a batch that
\* reports a count above 0 has left fewer Decisions without one than there
\* were when the batch was selected
C30_BackfillTerminates ==
    /\ <>(backfill.pc \in {"done", "failed"})
    /\ [](backfill.pc = "done" => \A d \in reasoning : reasoning_idx[d] # 0)
    /\ []((backfill.pc = "report" /\ backfill.count > 0) =>
            Cardinality({d \in reasoning : reasoning_idx[d] = 0}) < backfill.lacking)

C30_Witness ==
    /\ backfill.pc = "done"
    /\ backfill.total_generated = MaxCorpus
    /\ backfill.lacking = 0
====
